---- MODULE Spec2Model ----
(***************************************************************************)
(* Model of the Figma ranking strategy of lexorank-rust (src/src/lib.rs).  *)
(*                                                                         *)
(* A Rust &str is a sequence of bytes that is valid UTF-8; the strategy    *)
(* works on those bytes (as_bytes) with u8 arithmetic.  Strings are        *)
(* modelled as sequences of bytes 0..255, obtained by UTF-8 encoding       *)
(* sequences of code points.  Every generator returns an outcome record:   *)
(*   position   the String built (the wrapping continuation when an u8     *)
(*              operation overflowed, <<>> when the call panicked),        *)
(*   overflowed an u8 operation left 0..255 (a panic in a build with       *)
(*              overflow checks, a silent wrap-around in one without),     *)
(*   panicked   a slice bound or an unwrap failed (a panic in any build).  *)
(***************************************************************************)
EXTENDS Integers, Sequences, FiniteSets, TLC

\* ------------------------------------------------------------- bounds
\* Longest input string, in characters, of the generator specification.
MaxLen == 2
\* Longest input string, in characters, of the comparison specification.
MaxCmpLen == 2
\* Longest input string, in characters, of the validation specification.
MaxValidLen == 2
\* How many generated positions a run stores back as neighbours.
MaxSteps == 1

\* Code points the generator inputs are drawn from: both ends of the
\* alphabet with their neighbours, its midpoint, and one character outside.
SampleChars == {32, 33, 34, 79, 125, 126, 161}
\* Code points of the comparison inputs: one encoded in one byte, two in two.
CmpChars == {65, 128, 1024}
\* Code points of the validation inputs: inside, at and around the bounds.
ValidChars == {31, 32, 33, 65, 126, 127, 161}

\* ------------------------------------------------------------- constants
START_CHAR_CODE == 32
END_CHAR_CODE == 126

\* ------------------------------------------------------------- u8, str
\* u8 arithmetic without overflow checks wraps modulo 2^8.
U8(n) == n % 256

InU8(n) == n >= 0 /\ n <= 255

\* UTF-8 encoding of one code point below 2048 (one or two bytes).
utf8_char(cp) ==
    IF cp < 128 THEN <<cp>> ELSE <<192 + (cp \div 64), 128 + (cp % 64)>>

\* pos.as_bytes(): the UTF-8 bytes of a string given as code points.
RECURSIVE as_bytes(_)
as_bytes(cs) ==
    IF cs = <<>> THEN <<>> ELSE utf8_char(Head(cs)) \o as_bytes(Tail(cs))

\* The strings of at most n characters over the code points in S.
StrUpTo(S, n) == UNION {[1..k -> S] : k \in 0..n}

\* pos[0..n] on a str: panics unless n is within the string and on a
\* character boundary (not in front of a continuation byte 128..191).
is_char_boundary(bytes, n) ==
    /\ n >= 0
    /\ n <= Len(bytes)
    /\ (n < Len(bytes) => ~(bytes[n + 1] >= 128 /\ bytes[n + 1] <= 191))

\* str::from_utf8(&[c]).unwrap(): a single byte is a string iff it is ASCII.
from_utf8_ok(c) == c < 128

Fail == [position |-> <<>>, overflowed |-> FALSE, panicked |-> TRUE]

\* FigmaStrategy::avg, wrapping
avg(a, b) == U8(a + b) \div 2

\* ------------------------------------------------------------- compare
Min(x, y) == IF x <= y THEN x ELSE y

Max(x, y) == IF x >= y THEN x ELSE y

\* Ord for u8 and for usize.
cmp_int(x, y) == IF x < y THEN "Less" ELSE IF x > y THEN "Greater" ELSE "Equal"

\* A faulty variant of cmp_byte: the bytes compared as signed 8-bit integers.
cmp_byte_signed(x, y) ==
    cmp_int(IF x >= 128 THEN x - 256 ELSE x, IF y >= 128 THEN y - 256 ELSE y)

\* Ord for u8, the element comparison of the byte slices.
cmp_byte(x, y) == cmp_int(x, y)

\* first_pos.cmp(second_pos): str compares as its bytes, and byte slices
\* compare lexicographically: the first differing byte of the common
\* length decides, else the lengths do.
compare_positions(first_pos, second_pos) ==
    LET l == Min(Len(first_pos), Len(second_pos))
        D == {k \in 1..l : first_pos[k] # second_pos[k]}
    IN  IF D # {}
        THEN LET k == CHOOSE k \in D : \A j \in D : k <= j
             IN  cmp_byte(first_pos[k], second_pos[k])
        ELSE cmp_int(Len(first_pos), Len(second_pos))

\* ------------------------------------------------------------- is_valid
\* A faulty variant of out_of_alphabet: >= for > at the upper end.
out_of_alphabet_ge(c) == c < START_CHAR_CODE \/ c >= END_CHAR_CODE

\* line 94: *c < START_CHAR_CODE || *c > END_CHAR_CODE
out_of_alphabet(c) == c < START_CHAR_CODE \/ c > END_CHAR_CODE

is_valid_position(pos) ==
    IF pos = <<>> \/ pos[Len(pos)] = START_CHAR_CODE
    THEN FALSE
    ELSE \A k \in 1..Len(pos) : ~out_of_alphabet(pos[k])

\* ------------------------------------------------------------- before
\* A faulty variant of prefix_plus: the character is replaced in place and the
\* characters after it are kept.
prefix_plus_in_place(pos, i, c) ==
    IF ~is_char_boundary(pos, i) \/ ~from_utf8_ok(U8(c))
    THEN Fail
    ELSE [position |-> Append(SubSeq(pos, 1, i), U8(c))
                         \o SubSeq(pos, i + 2, Len(pos)),
          overflowed |-> ~InU8(c),
          panicked |-> FALSE]

\* The two early returns of position_before and position_after:
\* pos[0..i] + from_utf8(&[c]).unwrap(), i a 0-based byte index and c
\* the value of *c - 1 or *c + 1 before it is narrowed to u8.
prefix_plus(pos, i, c) ==
    IF ~is_char_boundary(pos, i) \/ ~from_utf8_ok(U8(c))
    THEN Fail
    ELSE [position |-> Append(SubSeq(pos, 1, i), U8(c)),
          overflowed |-> ~InU8(c),
          panicked |-> FALSE]

\* A faulty variant of before_grow: the last character is not removed.
before_grow_keep_last(pos) ==
    [position |-> pos \o <<START_CHAR_CODE, END_CHAR_CODE>>,
     overflowed |-> FALSE,
     panicked |-> FALSE]

\* lines 111-115: pos[0..pos.len() - 1] + START + END
before_grow(pos) ==
    IF ~is_char_boundary(pos, Len(pos) - 1)
    THEN Fail
    ELSE [position |-> SubSeq(pos, 1, Len(pos) - 1)
                         \o <<START_CHAR_CODE, END_CHAR_CODE>>,
          overflowed |-> FALSE,
          panicked |-> FALSE]

\* A faulty variant of before_has_room: START_CHAR_CODE for START_CHAR_CODE + 1.
before_has_room_from_start(c) == c > START_CHAR_CODE

\* line 105: *c > START_CHAR_CODE + 1
before_has_room(c) == c > START_CHAR_CODE + 1

\* The reversed scan of position_before from 1-based index k down to 1.
RECURSIVE before_scan(_, _)
before_scan(pos, k) ==
    IF k = 0
    THEN before_grow(pos)
    ELSE IF before_has_room(pos[k])
         THEN prefix_plus(pos, k - 1, pos[k] - 1)
         ELSE before_scan(pos, k - 1)

position_before(pos) == before_scan(pos, Len(pos))

\* ------------------------------------------------------------- after
\* A faulty variant of after_char: the decrement of position_before.
after_char_minus(c) == c - 1

\* line 122: *c + 1
after_char(c) == c + 1

\* The reversed scan of position_after from 1-based index k down to 1.
RECURSIVE after_scan(_, _)
after_scan(pos, k) ==
    IF k = 0
    THEN \* line 126: pos + from_utf8(&[START + 1]).unwrap()
         [position |-> Append(pos, START_CHAR_CODE + 1),
          overflowed |-> FALSE,
          panicked |-> FALSE]
    ELSE IF pos[k] < END_CHAR_CODE
         THEN prefix_plus(pos, k - 1, after_char(pos[k]))
         ELSE after_scan(pos, k - 1)

position_after(pos) == after_scan(pos, Len(pos))

\* ------------------------------------------------------------- between
\* lines 140-144
between_lower(first_pos, i) ==
    IF i < Len(first_pos) THEN first_pos[i + 1] ELSE START_CHAR_CODE

\* A faulty variant of between_upper: the flag is not consulted.
between_upper_no_flag(second_pos, i, flag) ==
    IF i < Len(second_pos) THEN second_pos[i + 1] ELSE END_CHAR_CODE

\* lines 145-149
between_upper(second_pos, i, flag) ==
    IF i < Len(second_pos) /\ ~flag
    THEN second_pos[i + 1] ELSE END_CHAR_CODE

\* A faulty variant of between_has_room: 2 for 1.
between_has_room_two(lower, upper) == U8(upper - lower) > 2

\* line 152: upper - lower > 1, in u8
between_has_room(lower, upper) == U8(upper - lower) > 1

\* lines 162-166: the trailing midpoint when the flag is still set.
between_finish(flag, position, ovf) ==
    [position |-> IF flag
                  THEN Append(position, avg(START_CHAR_CODE, END_CHAR_CODE))
                  ELSE position,
     overflowed |-> ovf,
     panicked |-> FALSE]

\* The loop of position_between from 0-based index i, with the loop's
\* variables flag and position; ovf records an overflow so far.
RECURSIVE between_loop(_, _, _, _, _, _)
between_loop(first_pos, second_pos, i, flag, position, ovf) ==
    IF i >= Max(Len(first_pos), Len(second_pos))
    THEN between_finish(flag, position, ovf)
    ELSE LET lower == between_lower(first_pos, i)
             upper == between_upper(second_pos, i, flag)
         IN  IF lower = upper
             THEN IF ~from_utf8_ok(lower) THEN Fail
                  ELSE between_loop(first_pos, second_pos, i + 1, flag,
                                    Append(position, lower), ovf)
             ELSE IF between_has_room(lower, upper)
             THEN IF ~from_utf8_ok(avg(lower, upper)) THEN Fail
                  ELSE between_finish(FALSE,
                                      Append(position, avg(lower, upper)),
                                      ovf \/ ~InU8(upper - lower)
                                          \/ ~InU8(lower + upper))
             ELSE IF ~from_utf8_ok(lower) THEN Fail
                  ELSE between_loop(first_pos, second_pos, i + 1, TRUE,
                                    Append(position, lower),
                                    ovf \/ ~InU8(upper - lower))

position_between(first_pos, second_pos) ==
    between_loop(first_pos, second_pos, 0, FALSE, <<>>, FALSE)

\* ------------------------------------------------------------- state
VARIABLES
    first,      \* the first argument of the calls (bytes of a &str)
    second,     \* the second argument of compare and between
    third,      \* a third string, for the comparisons
    op,         \* the operation called last, "none" before any call
    result,     \* the outcome record of the generator called last
    ordering,   \* the Orderings returned by the comparisons called last
    valid,      \* the bool returned by is_valid_position called last
    contract,   \* history: every generator call so far was given valid
                \* positions, strictly ordered for between
    steps       \* how many generated positions were stored back

vars == <<first, second, third, op, result, ordering, valid, contract, steps>>

NoResult == [position |-> <<>>, overflowed |-> FALSE, panicked |-> FALSE]

NoOrdering == [p \in {} |-> "Equal"]

Generators == {"before", "after", "between"}

\* The strings a caller can pass: UTF-8 encodings of character sequences.
Inputs(S, n) == {as_bytes(cs) : cs \in StrUpTo(S, n)}

\* ------------------------------------------------------------- generators
Init ==
    /\ first \in Inputs(SampleChars, MaxLen)
    /\ second \in Inputs(SampleChars, MaxLen)
    /\ third = <<>>
    /\ op = "none"
    /\ result = NoResult
    /\ ordering = NoOrdering
    /\ valid = FALSE
    /\ contract = TRUE
    /\ steps = 0

\* LexoRank::position_before(first)
Before ==
    /\ op = "none"
    /\ op' = "before"
    /\ result' = position_before(first)
    /\ contract' = (contract /\ is_valid_position(first))
    /\ UNCHANGED <<first, second, third, ordering, valid, steps>>

\* LexoRank::position_after(first)
After ==
    /\ op = "none"
    /\ op' = "after"
    /\ result' = position_after(first)
    /\ contract' = (contract /\ is_valid_position(first))
    /\ UNCHANGED <<first, second, third, ordering, valid, steps>>

\* LexoRank::position_between(first, second)
Between ==
    /\ op = "none"
    /\ op' = "between"
    /\ result' = position_between(first, second)
    /\ contract' = (/\ contract
                    /\ is_valid_position(first)
                    /\ is_valid_position(second)
                    /\ compare_positions(first, second) = "Less")
    /\ UNCHANGED <<first, second, third, ordering, valid, steps>>

\* The caller keeps the generated position as a neighbour of later calls:
\* a position made before or after first takes first's place, a position
\* made between the two takes second's place.
Reinsert ==
    /\ op \in Generators
    /\ ~result.panicked
    /\ steps < MaxSteps
    /\ IF op = "between"
       THEN second' = result.position /\ first' = first
       ELSE first' = result.position /\ second' = second
    /\ op' = "none"
    /\ result' = NoResult
    /\ steps' = steps + 1
    /\ UNCHANGED <<third, ordering, valid, contract>>

Next == Before \/ After \/ Between \/ Reinsert

Spec == Init /\ [][Next]_vars

\* Single calls of position_between on the initial pairs.
NextBetween == Between

BetweenSpec == Init /\ [][NextBetween]_vars

\* ------------------------------------------------------------- validation
InitValid ==
    /\ first \in Inputs(ValidChars, MaxValidLen)
    /\ second = <<>>
    /\ third = <<>>
    /\ op = "none"
    /\ result = NoResult
    /\ ordering = NoOrdering
    /\ valid = FALSE
    /\ contract = TRUE
    /\ steps = 0

\* LexoRank::is_valid_position(first)
IsValid ==
    /\ op = "none"
    /\ op' = "is_valid"
    /\ valid' = is_valid_position(first)
    /\ UNCHANGED <<first, second, third, result, ordering, contract, steps>>

NextValid == IsValid

ValidSpec == InitValid /\ [][NextValid]_vars

\* ------------------------------------------------------------- comparison
InitCompare ==
    /\ first \in Inputs(CmpChars, MaxCmpLen)
    /\ second \in Inputs(CmpChars, MaxCmpLen)
    /\ third \in Inputs(CmpChars, MaxCmpLen)
    /\ op = "none"
    /\ result = NoResult
    /\ ordering = NoOrdering
    /\ valid = FALSE
    /\ contract = TRUE
    /\ steps = 0

Args == <<first, second, third>>

\* LexoRank::compare_positions on every ordered pair of the three strings;
\* ordering[<<x, y>>] is the result for the x-th and the y-th of them.
Compare ==
    /\ op = "none"
    /\ op' = "compare"
    /\ ordering' = [p \in (1..3) \X (1..3) |->
                        compare_positions(Args[p[1]], Args[p[2]])]
    /\ UNCHANGED <<first, second, third, result, valid, contract, steps>>

NextCompare == Compare

CompareSpec == InitCompare /\ [][NextCompare]_vars

\* ------------------------------------------------------------- vocabulary
\* The code points of a string: the decoding of its UTF-8 bytes.
RECURSIVE chars(_)
chars(bytes) ==
    IF bytes = <<>> THEN <<>>
    ELSE IF bytes[1] < 128 THEN <<bytes[1]>> \o chars(Tail(bytes))
    ELSE <<(bytes[1] - 192) * 64 + (bytes[2] - 128)>> \o chars(Tail(Tail(bytes)))

\* A valid position: non-empty, every character in [32, 126], the last
\* character not 32.
WellFormedChars(cs) ==
    /\ cs # <<>>
    /\ \A k \in 1..Len(cs) : cs[k] >= 32 /\ cs[k] <= 126
    /\ cs[Len(cs)] # 32

ValidPosition(pos) == WellFormedChars(chars(pos))

\* x is a proper prefix of y.
ProperPrefix(x, y) == Len(x) < Len(y) /\ SubSeq(y, 1, Len(x)) = x

\* Lexicographic order of two sequences of numbers.
LexLess(x, y) ==
    \/ ProperPrefix(x, y)
    \/ \E k \in 1..Min(Len(x), Len(y)) :
          /\ SubSeq(x, 1, k - 1) = SubSeq(y, 1, k - 1)
          /\ x[k] < y[k]

\* The call returned a position in every build.
Returned == ~result.panicked /\ ~result.overflowed

Less(x, y) == compare_positions(x, y) = "Less"

\* The call made last was within the callers' contract.
BeforeCalled == op = "before" /\ ValidPosition(first)

AfterCalled == op = "after" /\ ValidPosition(first)

BetweenCalled ==
    /\ op = "between"
    /\ ValidPosition(first)
    /\ ValidPosition(second)
    /\ Less(first, second)

\* ------------------------------------------------------------- C1
\* C1: for valid a, b with compare(a, b) = Less, position_between(a, b)
\* returns r with compare(a, r) = Less and compare(r, b) = Less.
C1_BetweenIsStrictlyBetween ==
    BetweenCalled =>
        /\ Returned
        /\ Less(first, result.position)
        /\ Less(result.position, second)

\* a is longer than b, their first characters are adjacent code points,
\* and the loop ran to the end with the flag set.
C1_Witness_AdjacentLongerFirst ==
    /\ BetweenCalled
    /\ Len(first) > Len(second)
    /\ first[1] + 1 = second[1]
    /\ Len(result.position) = Len(first) + 1
    /\ Less(first, result.position)
    /\ Less(result.position, second)

\* ------------------------------------------------------------- C2
\* C2: for every valid p, position_before(p) is strictly less than p.
C2_BeforeIsLess ==
    BeforeCalled => Returned /\ Less(result.position, first)

\* The growth case: no character of p is above MIN + 1.
C2_Witness_Growth ==
    /\ BeforeCalled
    /\ \A k \in 1..Len(first) : first[k] <= START_CHAR_CODE + 1
    /\ Len(first) = 2
    /\ Less(result.position, first)

\* ------------------------------------------------------------- C3
\* C3: for every valid p, position_after(p) is strictly greater than p.
C3_AfterIsGreater ==
    AfterCalled =>
        Returned /\ compare_positions(result.position, first) = "Greater"

\* The growth case: every character of p is MAX.
C3_Witness_Growth ==
    /\ AfterCalled
    /\ \A k \in 1..Len(first) : first[k] = END_CHAR_CODE
    /\ Len(first) = 2
    /\ result.position = first \o <<START_CHAR_CODE + 1>>

\* ------------------------------------------------------------- C4
\* C4: is_valid_position(p) is true iff p is non-empty, its last character
\* is not 32 and every character is in [32, 126].
C4_IsValidIffWellFormed ==
    op = "is_valid" => (valid <=> ValidPosition(first))

\* A string with a character outside the alphabet, not ending in 32.
C4_Witness_OutsideAlphabet ==
    /\ op = "is_valid"
    /\ ~valid
    /\ Len(chars(first)) = 2
    /\ chars(first)[1] > 126
    /\ chars(first)[2] = 126

\* ------------------------------------------------------------- C5
\* C5: compare_positions is a strict total order that coincides with the
\* lexicographic order of the code points: Equal iff the strings are the
\* same, Less one way iff Greater the other, Less is transitive, and a
\* proper prefix is Less than its extensions.
C5_CompareIsLexicographicOrder ==
    op = "compare" =>
        \A x \in 1..3, y \in 1..3 :
            /\ ordering[<<x, y>>] \in {"Less", "Equal", "Greater"}
            /\ ordering[<<x, y>>] = "Equal" <=> Args[x] = Args[y]
            /\ ordering[<<x, y>>] = "Less" <=> ordering[<<y, x>>] = "Greater"
            /\ ordering[<<x, y>>] = "Less"
                   <=> LexLess(chars(Args[x]), chars(Args[y]))
            /\ ProperPrefix(chars(Args[x]), chars(Args[y]))
                   => ordering[<<x, y>>] = "Less"
            /\ \A z \in 1..3 :
                   ordering[<<x, y>>] = "Less" /\ ordering[<<y, z>>] = "Less"
                       => ordering[<<x, z>>] = "Less"

\* A chain of three strings, the first a proper prefix of the second, the
\* third differing from the second in a two-byte character.
C5_Witness_Chain ==
    /\ op = "compare"
    /\ ProperPrefix(first, second)
    /\ ordering[<<1, 2>>] = "Less"
    /\ ordering[<<2, 3>>] = "Less"
    /\ ordering[<<1, 3>>] = "Less"
    /\ Len(third) > Len(chars(third))
    /\ Len(chars(second)) = Len(chars(third))

\* ------------------------------------------------------------- C6
\* The alphabet of positions.
Alphabet == START_CHAR_CODE..END_CHAR_CODE

\* Some valid position strictly between first and second is shorter than
\* the generated one.
ShorterBetweenExists ==
    \E x \in StrUpTo(Alphabet, Len(result.position) - 1) :
        /\ ValidPosition(x)
        /\ Less(first, x)
        /\ Less(x, second)

\* The characters compared at the first index where a, read with code 32
\* after its end, differs from b.
FirstDifference(a, b) ==
    LET pad(k) == IF k <= Len(a) THEN a[k] ELSE START_CHAR_CODE
        k == CHOOSE k \in 1..Len(b) :
                /\ pad(k) # b[k]
                /\ \A j \in 1..(k - 1) : pad(j) = b[j]
    IN  <<pad(k), b[k]>>

\* C6 as stated: for valid a, b with compare(a, b) = Less, no valid
\* position strictly between a and b has fewer characters than
\* position_between(a, b).
C6_Original_ShortestBetween ==
    BetweenCalled => ~ShorterBetweenExists

\* C6 as amended: for valid a, b with compare(a, b) = Less whose first
\* differing characters (a read with code 32 after its end) are more than
\* one code point apart, no valid position strictly between a and b has
\* fewer characters than position_between(a, b).
C6_ShortestWhenNotAdjacent ==
    (/\ BetweenCalled
     /\ FirstDifference(first, second)[2] - FirstDifference(first, second)[1] > 1)
        => ~ShorterBetweenExists

\* a is a proper prefix of b and the midpoint is found in b's last
\* character, after a shared character of padding.
C6_Witness_MidpointAtDepth ==
    /\ BetweenCalled
    /\ ProperPrefix(first, second)
    /\ Len(result.position) = MaxLen
    /\ FirstDifference(first, second)[2] - FirstDifference(first, second)[1] > 1
    /\ ~ShorterBetweenExists

\* ------------------------------------------------------------- C7
\* C7: every generator preserves validity: as long as every call was given
\* valid positions (strictly ordered ones for between), every position
\* generated, also from positions generated earlier, is valid and is
\* accepted by is_valid_position.
C7_GeneratorsPreserveValidity ==
    (contract /\ op \in Generators) =>
        /\ Returned
        /\ is_valid_position(result.position)
        /\ ValidPosition(result.position)

\* A position generated between two valid positions of which one was
\* generated by an earlier call.
C7_Witness_SecondGeneration ==
    /\ contract
    /\ steps >= 1
    /\ op = "between"
    /\ is_valid_position(result.position)
    /\ Len(result.position) > MaxLen

\* ------------------------------------------------------------- C8
\* The result the specification describes for position_before.
ReferenceBefore(p) ==
    LET I == {k \in 1..Len(p) : p[k] > START_CHAR_CODE + 1}
    IN  IF I # {}
        THEN LET i == CHOOSE k \in I : \A j \in I : j <= k
             IN  SubSeq(p, 1, i - 1) \o <<p[i] - 1>>
        ELSE SubSeq(p, 1, Len(p) - 1) \o <<START_CHAR_CODE, END_CHAR_CODE>>

\* C8: position_before(p) is p up to the rightmost character above
\* MIN + 1, followed by that character minus one; or, without such a
\* character, p without its last character followed by 32 and 126.
C8_BeforeEqualsReference ==
    BeforeCalled => Returned /\ result.position = ReferenceBefore(first)

\* before("!") = " ~"
C8_Witness_Bang ==
    /\ BeforeCalled
    /\ first = <<33>>
    /\ result.position = <<32, 126>>

\* ------------------------------------------------------------- C9
HasHeadroom(p) == \E k \in 1..Len(p) : p[k] > START_CHAR_CODE + 1

\* C9 as stated: position_before(p) has exactly the length of p when p has
\* a character above MIN + 1, and is longer than p, by one character,
\* only when every character of p is MIN or MIN + 1.
C9_Original_SameLength ==
    BeforeCalled =>
        /\ HasHeadroom(first) => Len(result.position) = Len(first)
        /\ Len(result.position) > Len(first) =>
              /\ ~HasHeadroom(first)
              /\ Len(result.position) = Len(first) + 1

\* C9 as amended: when p has a character above MIN + 1, position_before(p)
\* is never longer than p, and has exactly the length of p if and only if
\* the last character of p is above MIN + 1 (the characters after the
\* decremented one are dropped); the result is longer than p, by one
\* character, only when every character of p is MIN or MIN + 1.
C9_NeverLongerWithHeadroom ==
    BeforeCalled =>
        /\ HasHeadroom(first) =>
              /\ Len(result.position) <= Len(first)
              /\ Len(result.position) = Len(first)
                    <=> first[Len(first)] > START_CHAR_CODE + 1
        /\ Len(result.position) > Len(first) =>
              /\ ~HasHeadroom(first)
              /\ Len(result.position) = Len(first) + 1

\* The decrement drops a tail: the result is shorter than p.
C9_Witness_TailDropped ==
    /\ BeforeCalled
    /\ HasHeadroom(first)
    /\ Len(result.position) < Len(first)

\* ------------------------------------------------------------- C10
\* C10: on valid inputs no u8 operation of a generator leaves its range
\* and no slice bound is negative: the call neither overflows nor panics,
\* and every character it wrote is in [32, 126].
C10_NoOverflowOnValidInputs ==
    (BeforeCalled \/ AfterCalled \/ BetweenCalled) =>
        /\ ~result.overflowed
        /\ ~result.panicked
        /\ \A k \in 1..Len(result.position) :
              result.position[k] \in Alphabet

\* The midpoint of 79 and 126 is taken after an adjacent pair set the flag:
\* the sum 205 is past the signed range and within the unsigned one.
C10_Witness_LargeSum ==
    /\ BetweenCalled
    /\ first = <<125, 79>>
    /\ second = <<126>>
    /\ result.position = <<125, 102>>
    /\ ~result.overflowed

====
